---- MODULE Spec2Model ----
(***************************************************************************)
(* Model of src/app.py: the number normaliser, the range expander, the     *)
(* preview builder and the three reconciliation handlers (fix_enp,         *)
(* fix_nprn, fix_disp) with the three stores they talk to.                 *)
(*                                                                         *)
(* A Python str is a sequence of one-character strings; a character        *)
(* outside printable ASCII is written as its code point ("U+0663").  A     *)
(* Python int is unbounded, so it is kept as its decimal digits: a         *)
(* sequence over 0..9, most significant first, without leading zeros (0 is *)
(* the empty sequence).                                                    *)
(***************************************************************************)
EXTENDS Integers, Sequences, FiniteSets, TLC

\* ------------------------------------------------------------------------
\* Bounds of the model
\* ------------------------------------------------------------------------

\* number of request workers that may run handlers concurrently
NumProcs == 2

\* number of handler invocations started in one behaviour
MaxOps == 2

\* longest run of trailing digits appended to a number under classification
MaxTail == 3

\* ------------------------------------------------------------------------
\* Program constants
\* ------------------------------------------------------------------------

\* expand_numbers(expr, max_span=100), expand_preview passes max_span=100
MAX_SPAN == 100

\* REDIS_DB = int(os.getenv("REDIS_DB", "9"))
REDIS_DB == 9

\* int(s) raises ValueError for a string of more than 4300 digits (the
\* interpreter's limit on str -> int conversion, which the program leaves at
\* its default)
INT_MAX_STR_DIGITS == 4300

\* ------------------------------------------------------------------------
\* Characters and strings
\* ------------------------------------------------------------------------

\* the ASCII digits, in the order of their values: str(n) writes these
DigitChars ==
    <<"0", "1", "2", "3", "4", "5", "6", "7", "8", "9">>

\* The characters \d matches in a str pattern: the Unicode decimal digits,
\* one row per script, each row in the order of the values 0..9.  A character
\* outside printable ASCII is written as its code point.
DecimalDigits ==
    <<DigitChars,
      <<"U+0660", "U+0661", "U+0662", "U+0663", "U+0664",
        "U+0665", "U+0666", "U+0667", "U+0668", "U+0669">>,
      <<"U+06F0", "U+06F1", "U+06F2", "U+06F3", "U+06F4",
        "U+06F5", "U+06F6", "U+06F7", "U+06F8", "U+06F9">>,
      <<"U+07C0", "U+07C1", "U+07C2", "U+07C3", "U+07C4",
        "U+07C5", "U+07C6", "U+07C7", "U+07C8", "U+07C9">>,
      <<"U+0966", "U+0967", "U+0968", "U+0969", "U+096A",
        "U+096B", "U+096C", "U+096D", "U+096E", "U+096F">>,
      <<"U+09E6", "U+09E7", "U+09E8", "U+09E9", "U+09EA",
        "U+09EB", "U+09EC", "U+09ED", "U+09EE", "U+09EF">>,
      <<"U+0A66", "U+0A67", "U+0A68", "U+0A69", "U+0A6A",
        "U+0A6B", "U+0A6C", "U+0A6D", "U+0A6E", "U+0A6F">>,
      <<"U+0AE6", "U+0AE7", "U+0AE8", "U+0AE9", "U+0AEA",
        "U+0AEB", "U+0AEC", "U+0AED", "U+0AEE", "U+0AEF">>,
      <<"U+0B66", "U+0B67", "U+0B68", "U+0B69", "U+0B6A",
        "U+0B6B", "U+0B6C", "U+0B6D", "U+0B6E", "U+0B6F">>,
      <<"U+0BE6", "U+0BE7", "U+0BE8", "U+0BE9", "U+0BEA",
        "U+0BEB", "U+0BEC", "U+0BED", "U+0BEE", "U+0BEF">>,
      <<"U+0C66", "U+0C67", "U+0C68", "U+0C69", "U+0C6A",
        "U+0C6B", "U+0C6C", "U+0C6D", "U+0C6E", "U+0C6F">>,
      <<"U+0CE6", "U+0CE7", "U+0CE8", "U+0CE9", "U+0CEA",
        "U+0CEB", "U+0CEC", "U+0CED", "U+0CEE", "U+0CEF">>,
      <<"U+0D66", "U+0D67", "U+0D68", "U+0D69", "U+0D6A",
        "U+0D6B", "U+0D6C", "U+0D6D", "U+0D6E", "U+0D6F">>,
      <<"U+0DE6", "U+0DE7", "U+0DE8", "U+0DE9", "U+0DEA",
        "U+0DEB", "U+0DEC", "U+0DED", "U+0DEE", "U+0DEF">>,
      <<"U+0E50", "U+0E51", "U+0E52", "U+0E53", "U+0E54",
        "U+0E55", "U+0E56", "U+0E57", "U+0E58", "U+0E59">>,
      <<"U+0ED0", "U+0ED1", "U+0ED2", "U+0ED3", "U+0ED4",
        "U+0ED5", "U+0ED6", "U+0ED7", "U+0ED8", "U+0ED9">>,
      <<"U+0F20", "U+0F21", "U+0F22", "U+0F23", "U+0F24",
        "U+0F25", "U+0F26", "U+0F27", "U+0F28", "U+0F29">>,
      <<"U+1040", "U+1041", "U+1042", "U+1043", "U+1044",
        "U+1045", "U+1046", "U+1047", "U+1048", "U+1049">>,
      <<"U+1090", "U+1091", "U+1092", "U+1093", "U+1094",
        "U+1095", "U+1096", "U+1097", "U+1098", "U+1099">>,
      <<"U+17E0", "U+17E1", "U+17E2", "U+17E3", "U+17E4",
        "U+17E5", "U+17E6", "U+17E7", "U+17E8", "U+17E9">>,
      <<"U+1810", "U+1811", "U+1812", "U+1813", "U+1814",
        "U+1815", "U+1816", "U+1817", "U+1818", "U+1819">>,
      <<"U+1946", "U+1947", "U+1948", "U+1949", "U+194A",
        "U+194B", "U+194C", "U+194D", "U+194E", "U+194F">>,
      <<"U+19D0", "U+19D1", "U+19D2", "U+19D3", "U+19D4",
        "U+19D5", "U+19D6", "U+19D7", "U+19D8", "U+19D9">>,
      <<"U+1A80", "U+1A81", "U+1A82", "U+1A83", "U+1A84",
        "U+1A85", "U+1A86", "U+1A87", "U+1A88", "U+1A89">>,
      <<"U+1A90", "U+1A91", "U+1A92", "U+1A93", "U+1A94",
        "U+1A95", "U+1A96", "U+1A97", "U+1A98", "U+1A99">>,
      <<"U+1B50", "U+1B51", "U+1B52", "U+1B53", "U+1B54",
        "U+1B55", "U+1B56", "U+1B57", "U+1B58", "U+1B59">>,
      <<"U+1BB0", "U+1BB1", "U+1BB2", "U+1BB3", "U+1BB4",
        "U+1BB5", "U+1BB6", "U+1BB7", "U+1BB8", "U+1BB9">>,
      <<"U+1C40", "U+1C41", "U+1C42", "U+1C43", "U+1C44",
        "U+1C45", "U+1C46", "U+1C47", "U+1C48", "U+1C49">>,
      <<"U+1C50", "U+1C51", "U+1C52", "U+1C53", "U+1C54",
        "U+1C55", "U+1C56", "U+1C57", "U+1C58", "U+1C59">>,
      <<"U+A620", "U+A621", "U+A622", "U+A623", "U+A624",
        "U+A625", "U+A626", "U+A627", "U+A628", "U+A629">>,
      <<"U+A8D0", "U+A8D1", "U+A8D2", "U+A8D3", "U+A8D4",
        "U+A8D5", "U+A8D6", "U+A8D7", "U+A8D8", "U+A8D9">>,
      <<"U+A900", "U+A901", "U+A902", "U+A903", "U+A904",
        "U+A905", "U+A906", "U+A907", "U+A908", "U+A909">>,
      <<"U+A9D0", "U+A9D1", "U+A9D2", "U+A9D3", "U+A9D4",
        "U+A9D5", "U+A9D6", "U+A9D7", "U+A9D8", "U+A9D9">>,
      <<"U+A9F0", "U+A9F1", "U+A9F2", "U+A9F3", "U+A9F4",
        "U+A9F5", "U+A9F6", "U+A9F7", "U+A9F8", "U+A9F9">>,
      <<"U+AA50", "U+AA51", "U+AA52", "U+AA53", "U+AA54",
        "U+AA55", "U+AA56", "U+AA57", "U+AA58", "U+AA59">>,
      <<"U+ABF0", "U+ABF1", "U+ABF2", "U+ABF3", "U+ABF4",
        "U+ABF5", "U+ABF6", "U+ABF7", "U+ABF8", "U+ABF9">>,
      <<"U+FF10", "U+FF11", "U+FF12", "U+FF13", "U+FF14",
        "U+FF15", "U+FF16", "U+FF17", "U+FF18", "U+FF19">>,
      <<"U+104A0", "U+104A1", "U+104A2", "U+104A3", "U+104A4",
        "U+104A5", "U+104A6", "U+104A7", "U+104A8", "U+104A9">>,
      <<"U+10D30", "U+10D31", "U+10D32", "U+10D33", "U+10D34",
        "U+10D35", "U+10D36", "U+10D37", "U+10D38", "U+10D39">>,
      <<"U+11066", "U+11067", "U+11068", "U+11069", "U+1106A",
        "U+1106B", "U+1106C", "U+1106D", "U+1106E", "U+1106F">>,
      <<"U+110F0", "U+110F1", "U+110F2", "U+110F3", "U+110F4",
        "U+110F5", "U+110F6", "U+110F7", "U+110F8", "U+110F9">>,
      <<"U+11136", "U+11137", "U+11138", "U+11139", "U+1113A",
        "U+1113B", "U+1113C", "U+1113D", "U+1113E", "U+1113F">>,
      <<"U+111D0", "U+111D1", "U+111D2", "U+111D3", "U+111D4",
        "U+111D5", "U+111D6", "U+111D7", "U+111D8", "U+111D9">>,
      <<"U+112F0", "U+112F1", "U+112F2", "U+112F3", "U+112F4",
        "U+112F5", "U+112F6", "U+112F7", "U+112F8", "U+112F9">>,
      <<"U+11450", "U+11451", "U+11452", "U+11453", "U+11454",
        "U+11455", "U+11456", "U+11457", "U+11458", "U+11459">>,
      <<"U+114D0", "U+114D1", "U+114D2", "U+114D3", "U+114D4",
        "U+114D5", "U+114D6", "U+114D7", "U+114D8", "U+114D9">>,
      <<"U+11650", "U+11651", "U+11652", "U+11653", "U+11654",
        "U+11655", "U+11656", "U+11657", "U+11658", "U+11659">>,
      <<"U+116C0", "U+116C1", "U+116C2", "U+116C3", "U+116C4",
        "U+116C5", "U+116C6", "U+116C7", "U+116C8", "U+116C9">>,
      <<"U+11730", "U+11731", "U+11732", "U+11733", "U+11734",
        "U+11735", "U+11736", "U+11737", "U+11738", "U+11739">>,
      <<"U+118E0", "U+118E1", "U+118E2", "U+118E3", "U+118E4",
        "U+118E5", "U+118E6", "U+118E7", "U+118E8", "U+118E9">>,
      <<"U+11950", "U+11951", "U+11952", "U+11953", "U+11954",
        "U+11955", "U+11956", "U+11957", "U+11958", "U+11959">>,
      <<"U+11C50", "U+11C51", "U+11C52", "U+11C53", "U+11C54",
        "U+11C55", "U+11C56", "U+11C57", "U+11C58", "U+11C59">>,
      <<"U+11D50", "U+11D51", "U+11D52", "U+11D53", "U+11D54",
        "U+11D55", "U+11D56", "U+11D57", "U+11D58", "U+11D59">>,
      <<"U+11DA0", "U+11DA1", "U+11DA2", "U+11DA3", "U+11DA4",
        "U+11DA5", "U+11DA6", "U+11DA7", "U+11DA8", "U+11DA9">>,
      <<"U+16A60", "U+16A61", "U+16A62", "U+16A63", "U+16A64",
        "U+16A65", "U+16A66", "U+16A67", "U+16A68", "U+16A69">>,
      <<"U+16AC0", "U+16AC1", "U+16AC2", "U+16AC3", "U+16AC4",
        "U+16AC5", "U+16AC6", "U+16AC7", "U+16AC8", "U+16AC9">>,
      <<"U+16B50", "U+16B51", "U+16B52", "U+16B53", "U+16B54",
        "U+16B55", "U+16B56", "U+16B57", "U+16B58", "U+16B59">>,
      <<"U+1D7CE", "U+1D7CF", "U+1D7D0", "U+1D7D1", "U+1D7D2",
        "U+1D7D3", "U+1D7D4", "U+1D7D5", "U+1D7D6", "U+1D7D7">>,
      <<"U+1D7D8", "U+1D7D9", "U+1D7DA", "U+1D7DB", "U+1D7DC",
        "U+1D7DD", "U+1D7DE", "U+1D7DF", "U+1D7E0", "U+1D7E1">>,
      <<"U+1D7E2", "U+1D7E3", "U+1D7E4", "U+1D7E5", "U+1D7E6",
        "U+1D7E7", "U+1D7E8", "U+1D7E9", "U+1D7EA", "U+1D7EB">>,
      <<"U+1D7EC", "U+1D7ED", "U+1D7EE", "U+1D7EF", "U+1D7F0",
        "U+1D7F1", "U+1D7F2", "U+1D7F3", "U+1D7F4", "U+1D7F5">>,
      <<"U+1D7F6", "U+1D7F7", "U+1D7F8", "U+1D7F9", "U+1D7FA",
        "U+1D7FB", "U+1D7FC", "U+1D7FD", "U+1D7FE", "U+1D7FF">>,
      <<"U+1E140", "U+1E141", "U+1E142", "U+1E143", "U+1E144",
        "U+1E145", "U+1E146", "U+1E147", "U+1E148", "U+1E149">>,
      <<"U+1E2F0", "U+1E2F1", "U+1E2F2", "U+1E2F3", "U+1E2F4",
        "U+1E2F5", "U+1E2F6", "U+1E2F7", "U+1E2F8", "U+1E2F9">>,
      <<"U+1E950", "U+1E951", "U+1E952", "U+1E953", "U+1E954",
        "U+1E955", "U+1E956", "U+1E957", "U+1E958", "U+1E959">>,
      <<"U+1FBF0", "U+1FBF1", "U+1FBF2", "U+1FBF3", "U+1FBF4",
        "U+1FBF5", "U+1FBF6", "U+1FBF7", "U+1FBF8", "U+1FBF9">>>>

\* the characters of the table t
CharsOf(t) == {t[b][i] : b \in 1..Len(t), i \in 1..10}

DecimalDigitSet == CharsOf(DecimalDigits)

\* \d of the regular expressions
IsDigit(c) == c \in DecimalDigitSet

\* the characters \s matches in a str pattern
SpaceChars ==
    {"\t", "\n", "U+000B", "\f", "\r", "U+001C", "U+001D",
     "U+001E", "U+001F", " ", "U+0085", "U+00A0", "U+1680", "U+2000",
     "U+2001", "U+2002", "U+2003", "U+2004", "U+2005", "U+2006", "U+2007",
     "U+2008", "U+2009", "U+200A", "U+2028", "U+2029", "U+202F", "U+205F",
     "U+3000"}

\* \s of the regular expressions
IsSpace(c) == c \in SpaceChars

NotSpace(c) == ~IsSpace(c)

\* the value of the character c in the table t: its column, counted from 0
ValueIn(t, c) ==
    (CHOOSE i \in 1..10 : \E b \in 1..Len(t) : t[b][i] = c) - 1

\* int(c) for a decimal digit character
DigitVal(c) == ValueIn(DecimalDigits, c)

\* s.startswith(p)
StartsWith(s, p) == Len(s) >= Len(p) /\ SubSeq(s, 1, Len(p)) = p

\* s[k:] with 0-based k
Drop(s, k) == SubSeq(s, k + 1, Len(s))

\* s[:k] with 0-based k
Take(s, k) == SubSeq(s, 1, k)

\* re.sub(r"\D+", "", s)
normalize_to_digits(s) == SelectSeq(s, IsDigit)

\* re.sub(r"\s+", "", expr)
StripSpace(s) == SelectSeq(s, NotSpace)

\* "-" in s
HasDash(s) == \E i \in 1..Len(s) : s[i] = "-"

\* index of the first "-" of s
FirstDash(s) ==
    LET dashes == {i \in 1..Len(s) : s[i] = "-"}
    IN  CHOOSE i \in dashes : \A j \in dashes : i <= j

\* ------------------------------------------------------------------------
\* Python integers as digit sequences
\* ------------------------------------------------------------------------

\* d without its leading zeros
StripZeros(d) ==
    IF \A i \in 1..Len(d) : d[i] = 0
    THEN <<>>
    ELSE LET first == CHOOSE i \in 1..Len(d) :
                          d[i] # 0 /\ \A j \in 1..(i - 1) : d[j] = 0
         IN  SubSeq(d, first, Len(d))

\* int(s) raises ValueError
IntTooLong(s) == Len(s) > INT_MAX_STR_DIGITS

\* int(s) for a non-empty string of at most INT_MAX_STR_DIGITS digits
IntOf(s) == StripZeros([i \in 1..Len(s) |-> DigitVal(s[i])])

\* str(n)
StrOf(n) ==
    IF n = <<>> THEN <<"0">> ELSE [i \in 1..Len(n) |-> DigitChars[n[i] + 1]]

\* the digit sequence of a small natural number
RECURSIVE FromNat(_)
FromNat(k) == IF k = 0 THEN <<>> ELSE FromNat(k \div 10) \o <<k % 10>>

\* str(k) for a small Python int k of either sign
StrOfInt(k) ==
    IF k < 0 THEN <<"-">> \o StrOf(FromNat(0 - k)) ELSE StrOf(FromNat(k))

\* the small natural number of a digit sequence (at most 9 digits)
RECURSIVE ToNat(_)
ToNat(n) ==
    IF n = <<>> THEN 0 ELSE 10 * ToNat(SubSeq(n, 1, Len(n) - 1)) + n[Len(n)]

\* a < b for digit sequences of the same length
LexLess(a, b) ==
    \E i \in 1..Len(a) : a[i] < b[i] /\ \A j \in 1..(i - 1) : a[j] = b[j]

\* a < b
BigLess(a, b) ==
    IF Len(a) # Len(b) THEN Len(a) < Len(b) ELSE LexLess(a, b)

\* digit k of n counted from the least significant one (1-based), 0 beyond
DigitAt(n, k) == IF k <= Len(n) THEN n[Len(n) + 1 - k] ELSE 0

\* a + b carries into position k: a lower position overflows and every
\* position in between passes the carry on
CarryInto(a, b, k) ==
    \E j \in 1..(k - 1) :
        /\ DigitAt(a, j) + DigitAt(b, j) >= 10
        /\ \A m \in (j + 1)..(k - 1) : DigitAt(a, m) + DigitAt(b, m) = 9

\* a + b
BigAdd(a, b) ==
    LET n == (IF Len(a) > Len(b) THEN Len(a) ELSE Len(b)) + 1
    IN  StripZeros([i \in 1..n |->
            LET k == n + 1 - i
            IN  (DigitAt(a, k) + DigitAt(b, k)
                    + (IF CarryInto(a, b, k) THEN 1 ELSE 0)) % 10])

\* a - b borrows from position k
BorrowFrom(a, b, k) ==
    \E j \in 1..(k - 1) :
        /\ DigitAt(a, j) < DigitAt(b, j)
        /\ \A m \in (j + 1)..(k - 1) : DigitAt(a, m) = DigitAt(b, m)

\* a - b for a >= b
BigSub(a, b) ==
    StripZeros([i \in 1..Len(a) |->
        LET k == Len(a) + 1 - i
        IN  (DigitAt(a, k) - DigitAt(b, k)
                - (IF BorrowFrom(a, b, k) THEN 1 ELSE 0) + 10) % 10])

\* s.zfill(width): pads on the left with "0", never truncates
ZFill(s, width) ==
    IF Len(s) >= width THEN s ELSE [i \in 1..(width - Len(s)) |-> "0"] \o s

\* ------------------------------------------------------------------------
\* NumberNormalizer, RangeExpander, PreviewBuilder
\* ------------------------------------------------------------------------

\* "Unsupported number format: "
UnsupportedPrefix ==
    <<"U", "n", "s", "u", "p", "p", "o", "r", "t", "e", "d", " ", "n", "u",
      "m", "b", "e", "r", " ", "f", "o", "r", "m", "a", "t", ":", " ">>

\* f"Unsupported number format: {number}"
ErrUnsupported(number) == UnsupportedPrefix \o number

\* "Bad range format"
ErrBadRange ==
    <<"B", "a", "d", " ", "r", "a", "n", "g", "e", " ", "f", "o", "r", "m",
      "a", "t">>

\* "Range end < start"
ErrEndBeforeStart ==
    <<"R", "a", "n", "g", "e", " ", "e", "n", "d", " ", "<", " ", "s", "t",
      "a", "r", "t">>

\* "Range too large (>"
TooLargePrefix ==
    <<"R", "a", "n", "g", "e", " ", "t", "o", "o", " ", "l", "a", "r", "g",
      "e", " ", "(", ">">>

\* f"Range too large (>{max_span})"
ErrTooLarge(max_span) == TooLargePrefix \o StrOfInt(max_span) \o <<")">>

\* the message of the ValueError int(s) raises on a string of n digits
IntLimitHead ==
    <<"E", "x", "c", "e", "e", "d", "s", " ", "t", "h", "e", " ", "l", "i",
      "m", "i", "t", " ", "(">>

IntLimitMid ==
    <<" ", "d", "i", "g", "i", "t", "s", ")", " ", "f", "o", "r", " ", "i",
      "n", "t", "e", "g", "e", "r", " ", "s", "t", "r", "i", "n", "g", " ",
      "c", "o", "n", "v", "e", "r", "s", "i", "o", "n", ":", " ", "v", "a",
      "l", "u", "e", " ", "h", "a", "s", " ">>

IntLimitTail ==
    <<" ", "d", "i", "g", "i", "t", "s", ";", " ", "u", "s", "e", " ", "s",
      "y", "s", ".", "s", "e", "t", "_", "i", "n", "t", "_", "m", "a", "x",
      "_", "s", "t", "r", "_", "d", "i", "g", "i", "t", "s", "(", ")", " ",
      "t", "o", " ", "i", "n", "c", "r", "e", "a", "s", "e", " ", "t", "h",
      "e", " ", "l", "i", "m", "i", "t">>

ErrIntLimit(n) ==
    IntLimitHead \o StrOf(FromNat(INT_MAX_STR_DIGITS)) \o IntLimitMid
        \o StrOf(FromNat(n)) \o IntLimitTail

P41 == <<"4", "1">>
P0 == <<"0">>

\* mutant: target = "0" + raw[1:]
TargetOfDn_off(raw) == P0 \o Drop(raw, 1)

\* target = "0" + raw[2:]
TargetOfDn(raw) == P0 \o Drop(raw, 2)

to_dn_and_target(number) ==
    LET raw == normalize_to_digits(number)
    IN  IF Len(raw) = 10 /\ StartsWith(raw, P0)
        THEN [ok |-> TRUE, exc |-> "", err |-> <<>>,
              dn |-> P41 \o Drop(raw, 1), target |-> raw]
        ELSE IF Len(raw) = 11 /\ StartsWith(raw, P41)
        THEN [ok |-> TRUE, exc |-> "", err |-> <<>>,
              dn |-> raw, target |-> TargetOfDn(raw)]
        ELSE [ok |-> FALSE, exc |-> "HTTPException",
              err |-> ErrUnsupported(number), dn |-> <<>>, target |-> <<>>]

\* raise HTTPException(400, e)
Fail(e) == [ok |-> FALSE, exc |-> "HTTPException", err |-> e, val |-> <<>>]

\* int(s) raises ValueError, which no handler catches
IntFail(s) ==
    [ok |-> FALSE, exc |-> "ValueError", err |-> ErrIntLimit(Len(s)),
     val |-> <<>>]

\* [str(n).zfill(width) for n in range(start_i, end_i + 1)], span elements
RangeList(start_i, span, width) ==
    [k \in 1..span |-> ZFill(StrOf(BigAdd(start_i, FromNat(k - 1))), width)]

\* the width harmonisation: a shorter end borrows the leading digits of start
EndFull(start_digits, end_digits) ==
    IF Len(end_digits) < Len(start_digits)
    THEN Take(start_digits, Len(start_digits) - Len(end_digits)) \o end_digits
    ELSE end_digits

\* mutant: the span check never fires
SpanTooLarge_never(span, max_span) == FALSE

\* span > max_span, for a span that is never negative and a max_span of
\* either sign
SpanTooLarge(span, max_span) ==
    max_span < 0 \/ BigLess(FromNat(max_span), span)

\* lines 92-97: the span check and the list
ExpandSpan(start_i, span, width, max_span) ==
    IF SpanTooLarge(span, max_span)
    THEN Fail(ErrTooLarge(max_span))
    ELSE [ok |-> TRUE, exc |-> "", err |-> <<>>,
          val |-> RangeList(start_i, ToNat(span), width)]

\* lines 89-92: the order check and span = end_i - start_i + 1
ExpandInts(start_i, end_i, width, max_span) ==
    IF BigLess(end_i, start_i)
    THEN Fail(ErrEndBeforeStart)
    ELSE ExpandSpan(start_i, BigAdd(BigSub(end_i, start_i), <<1>>), width,
                    max_span)

\* lines 87-88: start_i = int(start_digits), end_i = int(end_full)
ExpandFull(start_digits, end_full, max_span) ==
    IF IntTooLong(start_digits)
    THEN IntFail(start_digits)
    ELSE IF IntTooLong(end_full)
    THEN IntFail(end_full)
    ELSE ExpandInts(IntOf(start_digits), IntOf(end_full), Len(start_digits),
                    max_span)

\* lines 79-85: the emptiness check and the width harmonisation
ExpandDigits(start_digits, end_digits, max_span) ==
    IF start_digits = <<>> \/ end_digits = <<>>
    THEN Fail(ErrBadRange)
    ELSE ExpandFull(start_digits, EndFull(start_digits, end_digits), max_span)

\* lines 75-77: s.split("-", 1) at the dash of index cut, both sides reduced
\* to their digits
ExpandSplit(s, cut, max_span) ==
    ExpandDigits(normalize_to_digits(SubSeq(s, 1, cut - 1)),
                 normalize_to_digits(SubSeq(s, cut + 1, Len(s))), max_span)

\* lines 72-75: a string without a dash is returned as the only element
ExpandStripped(s, max_span) ==
    IF ~HasDash(s)
    THEN [ok |-> TRUE, exc |-> "", err |-> <<>>, val |-> <<s>>]
    ELSE ExpandSplit(s, FirstDash(s), max_span)

expand_numbers(expr, max_span) == ExpandStripped(StripSpace(expr), max_span)

RoutingPrefix ==
    <<"n", "p", "r", "n", ":", "r", "o", "u", "t", "i", "n", "g", ":">>

\* f"nprn:routing:{dn}"
RedisKey(dn) == RoutingPrefix \o dn

\* an exception leaves expand_preview
NoPreview(exc, e) ==
    [ok |-> FALSE, exc |-> exc, err |-> e, count |-> 0,
     expanded_targets |-> <<>>, expanded_dns |-> <<>>,
     expanded_redis_keys |-> <<>>]

\* the loop of lines 104-107: to_dn_and_target on every expanded target
Classify(targets) ==
    [i \in 1..Len(targets) |-> to_dn_and_target(targets[i])]

\* lines 104-114 on the results cls of the loop: the first failure leaves the
\* function, otherwise the dictionary is built
PreviewFrom(cls) ==
    LET bad == {i \in 1..Len(cls) : ~cls[i].ok}
    IN  IF bad # {}
        THEN LET first == CHOOSE i \in bad : \A j \in bad : i <= j
             IN  NoPreview(cls[first].exc, cls[first].err)
        ELSE [ok |-> TRUE, exc |-> "", err |-> <<>>,
              count |-> Len(cls),
              expanded_targets |-> [i \in 1..Len(cls) |-> cls[i].target],
              expanded_dns |-> [i \in 1..Len(cls) |-> cls[i].dn],
              expanded_redis_keys |->
                  [i \in 1..Len(cls) |-> RedisKey(cls[i].dn)]]

\* lines 101-114 on the outcome of expand_numbers
PreviewOfTargets(targets) ==
    IF ~targets.ok
    THEN NoPreview(targets.exc, targets.err)
    ELSE PreviewFrom(Classify(targets.val))

expand_preview(expr) == PreviewOfTargets(expand_numbers(expr, MAX_SPAN))


\* ------------------------------------------------------------------------
\* State
\* ------------------------------------------------------------------------

VARIABLES
    pg,        \* relational store: dn -> committed row of table numbers
    redis,     \* key-value store: logical database index -> set of keys
    mdb,       \* provisioning store: committed rows of cli_provisioning
    pgtxn,     \* per worker: dns of the rows its open UPDATE holds
    txn,       \* per worker: rows deleted in its open, uncommitted transaction
    pc,        \* per worker: position of the handler it runs
    req,       \* per worker: the handler called and its FixRequest body
    cur,       \* per worker: cursor of the handler (fetched rows, rowcount)
    calls,     \* per worker: store calls issued by the running invocation
    out,       \* the response most recently returned, with its request
    nops,      \* number of invocations started
    mdb0,      \* history: the provisioning rows at the start
    reported,  \* history: sum of the deleted_count values returned
    lastdry,   \* history: the last dry fix_disp answer, its input and the rows
    fin,       \* pure-function harness: the input string
    fkind,     \* pure-function harness: which function was applied
    fspan,     \* pure-function harness: the max_span passed
    fout       \* pure-function harness: what the function returned

fvars == <<fin, fkind, fspan, fout>>
vars == <<pg, redis, mdb, pgtxn, txn, pc, req, cur, calls, out, nops, mdb0,
          reported, lastdry, fin, fkind, fspan, fout>>

Procs == 1..NumProcs

\* x in seq
InSeq(x, seq) == \E i \in 1..Len(seq) : seq[i] = x

\* the decimal string of a small natural number at a given width
Dec(n, w) == ZFill(StrOf(FromNat(n)), w)

\* ------------------------------------------------------------------------
\* Requests drawn by the handlers
\* ------------------------------------------------------------------------

TargetA == Dec(412345678, 10)
TargetB == Dec(412345679, 10)
DnA == to_dn_and_target(TargetA).dn
DnB == to_dn_and_target(TargetB).dn

InA == TargetA
InAB == TargetA \o <<" ", "-", "U+00A0", "9">>
InB11 == <<"+">> \o DnB
InUnsupported == Dec(98765432, 8)
InBadRange == TargetA \o <<"-">>
InEndBefore == TargetB \o <<"-", "8">>
InTooLarge == Dec(412345600, 10) \o <<"-", "7", "0", "0">>
InTooLong == [i \in 1..(INT_MAX_STR_DIGITS + 1) |-> "1"] \o <<"-", "2">>

HandlerInputs ==
    {InA, InAB, InB11, InUnsupported, InBadRange, InEndBefore, InTooLarge}

\* the over-long range is sent to fix_disp only: the three handlers answer it
\* on the same path, before their first store call
DispInputs == HandlerInputs \cup {InTooLong}

EnpTargets == {"NXP1", "NXP2"}

\* prev = expand_preview(body.input), evaluated once per input
PreviewOf == [i \in DispInputs |-> expand_preview(i)]

\* ------------------------------------------------------------------------
\* The three stores
\* ------------------------------------------------------------------------

\* a row of numbers as the upstream systems left it
OldRow ==
    [reservation_tstamp |-> "old", product_id |-> 0, system_id |-> 0,
     nprn |-> 0, outporting_tstamp |-> "old", lastupdated_tstamp |-> "old"]

\* rows of cli_provisioning: two for TargetA, one for TargetB
ProvRows ==
    {[id |-> 1, target_number |-> TargetA],
     [id |-> 2, target_number |-> TargetA],
     [id |-> 3, target_number |-> TargetB]}

\* the logical databases of the key-value store: the one a fresh connection
\* is on, and the configured one
RedisDbs == {0, REDIS_DB}

ENP_MAP ==
    [NXP1 |-> [system_id |-> 500, nprn |-> 98067],
     NXP2 |-> [system_id |-> 510, nprn |-> 98019]]

\* the rows the UPDATE ... WHERE dn = ANY(dns) RETURNING dn reports; the order
\* of the returned rows is the store's, so they are kept as a set
UpdatedDns(store, dns) == {d \in DOMAIN store : InSeq(d, dns)}

\* the UPDATE waits while another open transaction holds a row it matches
PgBlocked(p, dns) ==
    \E q \in Procs \ {p} : \E d \in pgtxn[q] : InSeq(d, dns)

\* mutant: UPDATE without the WHERE clause
PgUpdate_all(store, dns, cfg) ==
    [d \in DOMAIN store |->
        [reservation_tstamp |-> "2050-01-01 00:00:00",
         product_id |-> 1,
         system_id |-> cfg.system_id,
         nprn |-> cfg.nprn,
         outporting_tstamp |-> "NULL",
         lastupdated_tstamp |-> "NOW"]]

\* the table numbers after the UPDATE
PgUpdate(store, dns, cfg) ==
    [d \in DOMAIN store |->
        IF InSeq(d, dns)
        THEN [reservation_tstamp |-> "2050-01-01 00:00:00",
              product_id |-> 1,
              system_id |-> cfg.system_id,
              nprn |-> cfg.nprn,
              outporting_tstamp |-> "NULL",
              lastupdated_tstamp |-> "NOW"]
        ELSE store[d]]

\* mutant: the SELECT is not issued
SelectedDb_noselect(conn_db) == conn_db

\* r.execute_command("SELECT", REDIS_DB) on a connection that starts on conn_db
SelectedDb(conn_db) == REDIS_DB

\* pipe.delete(k) for every key, then pipe.execute(): the DEL commands run in
\* order, each returning the number of keys it removed
RECURSIVE PipelineDelete(_, _)
PipelineDelete(keys, db) ==
    IF keys = <<>>
    THEN [counts |-> <<>>, left |-> db]
    ELSE LET k == Head(keys)
             rest == PipelineDelete(Tail(keys), db \ {k})
         IN  [counts |-> <<IF k \in db THEN 1 ELSE 0>> \o rest.counts,
              left |-> rest.left]

\* SELECT ... FROM cli_provisioning WHERE target_number IN (targets)
SelectRows(store, targets) == {r \in store : InSeq(r.target_number, targets)}

\* mutant: DELETE ... WHERE target_number = targets[0]
DeleteRows_first(store, targets) == {r \in store : r.target_number = targets[1]}

\* DELETE FROM cli_provisioning WHERE target_number IN (targets)
DeleteRows(store, targets) == {r \in store : InSeq(r.target_number, targets)}

\* the DELETE waits while another open transaction holds a row it matches
Blocked(p, targets) ==
    \E q \in Procs \ {p} : DeleteRows(txn[q], targets) # {}

\* ------------------------------------------------------------------------
\* Requests and responses
\* ------------------------------------------------------------------------

NoResponse == [status |-> 0]

\* raise HTTPException(400, detail)
Err400(detail) == [status |-> 400, detail |-> detail]

\* "Internal Server Error"
InternalServerError ==
    <<"I", "n", "t", "e", "r", "n", "a", "l", " ", "S", "e", "r", "v", "e",
      "r", " ", "E", "r", "r", "o", "r">>

\* any other exception leaves the handler: a failed operation
Err500 == [status |-> 500, detail |-> InternalServerError]

\* the answer to a request whose expand_preview raised
PreviewError(prev) ==
    IF prev.exc = "HTTPException" THEN Err400(prev.err) ELSE Err500

\* no cursor: rows fetched, rowcount of the DELETE, and two history fields:
\* the committed rows when the snapshot was read, and whether they were
\* still the same when the DELETE ran
NoCursor == [rows |-> {}, rowcount |-> -1, view |-> {}, quiet |-> TRUE]

Request(op, input, dry_run, enp_target) ==
    [op |-> op, input |-> input, dry_run |-> dry_run, enp_target |-> enp_target]

NoRequest == Request("none", <<>>, FALSE, "NXP1")

\* require_token passed; the handler starts on the first idle worker (the
\* workers are interchangeable)
Start(p) ==
    /\ pc[p] = "idle"
    /\ \A q \in 1..(p - 1) : pc[q] # "idle"
    /\ nops < MaxOps
    /\ nops' = nops + 1

\* the handler on worker p, called with request r, ends with response x
\* after the store calls c; c0 is its cursor at that point
Finish(p, r, x, c, c0) ==
    /\ out' = [seq |-> out.seq + 1, req |-> r, res |-> x,
               calls |-> c, cur |-> c0]
    /\ pc' = [pc EXCEPT ![p] = "idle"]
    /\ req' = [req EXCEPT ![p] = NoRequest]
    /\ cur' = [cur EXCEPT ![p] = NoCursor]
    /\ calls' = [calls EXCEPT ![p] = <<>>]

\* a store failure is an outcome only where a store is called
Relevant(prev, dry_run, outcome) ==
    (~prev.ok \/ dry_run) => outcome = "ok"

\* ------------------------------------------------------------------------
\* Handlers
\* ------------------------------------------------------------------------

EnpDryResponse(prev, enp_target, cfg) ==
    [status |-> 200, dry_run |-> TRUE, enp_target |-> enp_target,
     count |-> prev.count, expanded_targets |-> prev.expanded_targets,
     expanded_dns |-> prev.expanded_dns,
     expanded_redis_keys |-> prev.expanded_redis_keys,
     system_id |-> cfg.system_id, nprn |-> cfg.nprn]

EnpLiveResponse(prev, enp_target, cfg, updated_dns) ==
    [status |-> 200, dry_run |-> FALSE, enp_target |-> enp_target,
     count |-> prev.count, expanded_targets |-> prev.expanded_targets,
     expanded_dns |-> prev.expanded_dns,
     expanded_redis_keys |-> prev.expanded_redis_keys,
     system_id |-> cfg.system_id, nprn |-> cfg.nprn,
     updated_dns |-> updated_dns]

\* mutant: the dry_run flag is not looked at
IsDryRun_ignored(r) == FALSE

\* if body.dry_run:
IsDryRun(r) == r.dry_run

\* POST /fix/enp up to and including the UPDATE: the statement runs in the
\* transaction the connection opened, takes the locks of the rows it matches
\* and its rows are not visible to others before the commit
FixEnpUpdate(p, input, dry_run, enp_target, outcome) ==
    LET prev == PreviewOf[input]
        cfg == ENP_MAP[enp_target]
        dns == prev.expanded_dns
        r == Request("enp", input, dry_run, enp_target)
        updated == UpdatedDns(pg, dns)
    IN  /\ Start(p)
        /\ Relevant(prev, dry_run, outcome)
        /\ IF ~prev.ok
           THEN /\ Finish(p, r, PreviewError(prev), <<>>, NoCursor)
                /\ pgtxn' = pgtxn
           ELSE IF IsDryRun(r)
           THEN /\ Finish(p, r, EnpDryResponse(prev, enp_target, cfg), <<>>, NoCursor)
                /\ pgtxn' = pgtxn
           ELSE IF outcome = "connfail"
           THEN /\ Finish(p, r, Err500, <<"pg.connect">>, NoCursor)
                /\ pgtxn' = pgtxn
           ELSE IF outcome = "execfail"
           THEN /\ Finish(p, r, Err500,
                          <<"pg.connect", "pg.execute", "pg.rollback", "pg.close">>,
                          NoCursor)
                /\ pgtxn' = pgtxn
           ELSE /\ ~PgBlocked(p, dns)
                /\ pgtxn' = [pgtxn EXCEPT ![p] = updated]
                /\ pc' = [pc EXCEPT ![p] = "updated"]
                /\ req' = [req EXCEPT ![p] = r]
                /\ calls' = [calls EXCEPT ![p] = <<"pg.connect", "pg.execute">>]
                /\ cur' = [cur EXCEPT ![p] =
                              [rows |-> updated, rowcount |-> Cardinality(updated),
                               view |-> {}, quiet |-> TRUE]]
                /\ out' = out
        /\ UNCHANGED <<pg, redis, mdb, txn, mdb0, reported, lastdry, fvars>>

\* live fix_enp: leaving the with block commits and closes the connection,
\* then the handler returns; when the commit fails the exception leaves the
\* block, the connection is not closed and the transaction is lost
FixEnpCommit(p, outcome) ==
    LET prev == PreviewOf[req[p].input]
        cfg == ENP_MAP[req[p].enp_target]
    IN  /\ pc[p] = "updated"
        /\ pgtxn' = [pgtxn EXCEPT ![p] = {}]
        /\ IF outcome = "execfail"
           THEN /\ Finish(p, req[p], Err500, calls[p] \o <<"pg.commit">>, cur[p])
                /\ pg' = pg
           ELSE /\ Finish(p, req[p],
                          EnpLiveResponse(prev, req[p].enp_target, cfg, cur[p].rows),
                          calls[p] \o <<"pg.commit", "pg.close">>, cur[p])
                /\ pg' = PgUpdate(pg, prev.expanded_dns, cfg)
        /\ UNCHANGED <<redis, mdb, txn, nops, mdb0, reported, lastdry, fvars>>

NprnDryResponse(prev) ==
    [status |-> 200, dry_run |-> TRUE,
     count |-> prev.count, expanded_targets |-> prev.expanded_targets,
     expanded_dns |-> prev.expanded_dns,
     expanded_redis_keys |-> prev.expanded_redis_keys,
     redis_db |-> REDIS_DB]

NprnLiveResponse(prev, deleted_counts) ==
    [status |-> 200, dry_run |-> FALSE,
     count |-> prev.count, expanded_targets |-> prev.expanded_targets,
     expanded_dns |-> prev.expanded_dns,
     expanded_redis_keys |-> prev.expanded_redis_keys,
     redis_db |-> REDIS_DB, deleted_counts |-> deleted_counts]

\* for k in prev["expanded_redis_keys"]: the keys queued on the pipeline
PipelineKeys(prev) == prev.expanded_redis_keys

\* POST /fix/nprn, the whole handler: redis_conn(), the SELECT, then the
\* pipeline, which reaches the store in one round trip; the SELECT changes no
\* key, so the handler is one step
FixNprn(p, input, dry_run, outcome) ==
    LET prev == PreviewOf[input]
        r == Request("nprn", input, dry_run, "NXP1")
        db == SelectedDb(0)
        done == PipelineDelete(PipelineKeys(prev), redis[db])
    IN  /\ Start(p)
        /\ Relevant(prev, dry_run, outcome)
        /\ IF ~prev.ok
           THEN /\ Finish(p, r, PreviewError(prev), <<>>, NoCursor)
                /\ redis' = redis
           ELSE IF IsDryRun(r)
           THEN /\ Finish(p, r, NprnDryResponse(prev), <<>>, NoCursor)
                /\ redis' = redis
           ELSE IF outcome = "connfail"
           THEN /\ Finish(p, r, Err500, <<"redis.connect">>, NoCursor)
                /\ redis' = redis
           ELSE IF outcome = "selectfail"
           THEN /\ Finish(p, r, Err500, <<"redis.connect", "redis.select">>,
                          NoCursor)
                /\ redis' = redis
           ELSE IF outcome = "execfail"
           THEN /\ Finish(p, r, Err500,
                          <<"redis.connect", "redis.select", "redis.pipeline">>,
                          NoCursor)
                /\ redis' = redis
           ELSE /\ Finish(p, r, NprnLiveResponse(prev, done.counts),
                          <<"redis.connect", "redis.select", "redis.pipeline">>,
                          NoCursor)
                /\ redis' = [redis EXCEPT ![db] = done.left]
        /\ UNCHANGED <<pg, mdb, pgtxn, txn, mdb0, reported, lastdry, fvars>>

DispDryResponse(prev, rows) ==
    [status |-> 200, dry_run |-> TRUE,
     count |-> prev.count, expanded_targets |-> prev.expanded_targets,
     expanded_dns |-> prev.expanded_dns,
     expanded_redis_keys |-> prev.expanded_redis_keys,
     would_delete_count |-> Cardinality(rows), would_delete_rows |-> rows]

DispLiveResponse(prev, rowcount, rows) ==
    [status |-> 200, dry_run |-> FALSE,
     count |-> prev.count, expanded_targets |-> prev.expanded_targets,
     expanded_dns |-> prev.expanded_dns,
     expanded_redis_keys |-> prev.expanded_redis_keys,
     deleted_count |-> rowcount, deleted_rows |-> rows]

\* mutant: the except clause does not roll back
DispOnError_norollback == <<"mdb.close">>

\* except: conn.rollback(); raise -- finally: conn.close()
DispOnError == <<"mdb.rollback", "mdb.close">>

\* POST /fix/disp up to and including the snapshot query; a dry run ends
\* here, and its connection is closed without a commit
FixDispSelect(p, input, dry_run, outcome) ==
    LET prev == PreviewOf[input]
        r == Request("disp", input, dry_run, "NXP1")
        rows == SelectRows(mdb, prev.expanded_targets)
        c == [rows |-> rows, rowcount |-> -1, view |-> mdb, quiet |-> TRUE]
    IN  /\ Start(p)
        /\ (~prev.ok) => outcome = "ok"
        /\ IF ~prev.ok
           THEN /\ Finish(p, r, PreviewError(prev), <<>>, NoCursor)
                /\ lastdry' = lastdry
           ELSE IF outcome = "connfail"
           THEN /\ Finish(p, r, Err500, <<"mdb.connect">>, NoCursor)
                /\ lastdry' = lastdry
           ELSE IF outcome = "execfail"
           THEN /\ Finish(p, r, Err500,
                          <<"mdb.connect", "mdb.select">> \o DispOnError, NoCursor)
                /\ lastdry' = lastdry
           ELSE IF IsDryRun(r)
           THEN /\ Finish(p, r, DispDryResponse(prev, rows),
                          <<"mdb.connect", "mdb.select", "mdb.close">>, c)
                /\ lastdry' = [input |-> input, view |-> mdb,
                               count |-> DispDryResponse(prev, rows).would_delete_count]
           ELSE /\ pc' = [pc EXCEPT ![p] = "selected"]
                /\ req' = [req EXCEPT ![p] = r]
                /\ calls' = [calls EXCEPT ![p] = <<"mdb.connect", "mdb.select">>]
                /\ cur' = [cur EXCEPT ![p] = c]
                /\ UNCHANGED <<out, lastdry>>
        /\ UNCHANGED <<pg, redis, mdb, pgtxn, txn, mdb0, reported, fvars>>

\* live fix_disp: the DELETE statement, inside the connection's transaction
FixDispDelete(p, outcome) ==
    LET targets == PreviewOf[req[p].input].expanded_targets
        gone == DeleteRows(mdb, targets)
    IN  /\ pc[p] = "selected"
        /\ IF outcome = "execfail"
           THEN /\ Finish(p, req[p], Err500,
                          calls[p] \o <<"mdb.delete">> \o DispOnError, cur[p])
                /\ txn' = txn
           ELSE /\ ~Blocked(p, targets)
                /\ txn' = [txn EXCEPT ![p] = gone]
                /\ cur' = [cur EXCEPT ![p].rowcount = Cardinality(gone),
                                      ![p].quiet = (mdb = cur[p].view)]
                /\ pc' = [pc EXCEPT ![p] = "deleted"]
                /\ calls' = [calls EXCEPT ![p] = @ \o <<"mdb.delete">>]
                /\ UNCHANGED <<req, out>>
        /\ UNCHANGED <<pg, redis, mdb, pgtxn, nops, mdb0, reported, lastdry, fvars>>

\* the store calls of fix_disp after a DELETE that returned
DispAfterDelete == <<"mdb.commit", "mdb.close">>

\* mutant: "deleted_count": len(rows)
ReportedCount_len(c) == Cardinality(c.rows)

\* "deleted_count": cur.rowcount
ReportedCount(c) == c.rowcount

\* live fix_disp: conn.commit() and the return; a connection closed without
\* a commit loses its transaction
FixDispCommit(p, outcome) ==
    LET prev == PreviewOf[req[p].input]
    IN  /\ pc[p] = "deleted"
        /\ txn' = [txn EXCEPT ![p] = {}]
        /\ IF outcome = "execfail"
           THEN /\ Finish(p, req[p], Err500,
                          calls[p] \o <<"mdb.commit">> \o DispOnError, cur[p])
                /\ UNCHANGED <<mdb, reported>>
           ELSE /\ Finish(p, req[p],
                          DispLiveResponse(prev, ReportedCount(cur[p]), cur[p].rows),
                          calls[p] \o DispAfterDelete, cur[p])
                /\ mdb' = IF InSeq("mdb.commit", DispAfterDelete)
                          THEN mdb \ txn[p]
                          ELSE mdb
                /\ reported' = reported + ReportedCount(cur[p])
        /\ UNCHANGED <<pg, redis, pgtxn, nops, mdb0, lastdry, fvars>>

\* what a connection attempt and the handler's first statement can do
Outcomes == {"ok", "connfail", "execfail"}

\* fix_nprn issues two commands: the SELECT and the pipeline
NprnOutcomes == {"ok", "connfail", "selectfail", "execfail"}

StatementOutcomes == {"ok", "execfail"}

\* ------------------------------------------------------------------------
\* The specification of the handlers
\* ------------------------------------------------------------------------

\* the harness of the pure functions is idle while the handlers run
FnIdle ==
    /\ fin = <<>>
    /\ fkind = "none"
    /\ fspan = 0
    /\ fout = NoResponse

\* the stores at the start: every number is known to a store or not
InitStores ==
    /\ pg \in {[d \in D |-> OldRow] : D \in SUBSET {DnA, DnB}}
    /\ redis \in {[db \in RedisDbs |->
                      IF db = REDIS_DB
                      THEN {RedisKey(d) : d \in DOMAIN pg}
                      ELSE {RedisKey(DnA), RedisKey(DnB)}]}
    /\ mdb \in {{r \in ProvRows :
                    to_dn_and_target(r.target_number).dn \in DOMAIN pg}}

InitWorkers ==
    /\ pgtxn = [p \in Procs |-> {}]
    /\ txn = [p \in Procs |-> {}]
    /\ pc = [p \in Procs |-> "idle"]
    /\ req = [p \in Procs |-> NoRequest]
    /\ cur = [p \in Procs |-> NoCursor]
    /\ calls = [p \in Procs |-> <<>>]
    /\ out = [seq |-> 0, req |-> NoRequest, res |-> NoResponse,
              calls |-> <<>>, cur |-> NoCursor]
    /\ nops = 0
    /\ reported = 0
    /\ lastdry = [input |-> <<>>, view |-> {}, count |-> -1]

Init ==
    /\ InitStores
    /\ mdb0 = mdb
    /\ InitWorkers
    /\ FnIdle

Next ==
    \/ \E p \in Procs, input \in HandlerInputs, dry_run \in BOOLEAN,
          enp_target \in EnpTargets, outcome \in Outcomes :
          FixEnpUpdate(p, input, dry_run, enp_target, outcome)
    \/ \E p \in Procs, outcome \in StatementOutcomes : FixEnpCommit(p, outcome)
    \/ \E p \in Procs, input \in HandlerInputs, dry_run \in BOOLEAN,
          outcome \in NprnOutcomes :
          FixNprn(p, input, dry_run, outcome)
    \/ \E p \in Procs, input \in DispInputs, dry_run \in BOOLEAN,
          outcome \in Outcomes :
          FixDispSelect(p, input, dry_run, outcome)
    \/ \E p \in Procs, outcome \in StatementOutcomes : FixDispDelete(p, outcome)
    \/ \E p \in Procs, outcome \in StatementOutcomes : FixDispCommit(p, outcome)

Spec == Init /\ [][Next]_vars
\* ------------------------------------------------------------------------
\* The specification of the pure functions
\* ------------------------------------------------------------------------

\* all sequences over alphabet of length at most n
RECURSIVE SeqsUpTo(_, _)
SeqsUpTo(alphabet, n) ==
    IF n = 0 THEN {<<>>}
    ELSE LET shorter == SeqsUpTo(alphabet, n - 1)
         IN  shorter \cup {t \o <<c>> : t \in shorter, c \in alphabet}

\* numbers handed to to_dn_and_target: a head, seven digits, a tail
NumberHeads ==
    {<<>>, <<"0">>, <<"0", "0">>, <<"1">>, <<"4", "1">>, <<"4", "2">>,
     <<"+", "4", "1", " ">>}

\* the characters of a tail: a digit, a digit of another script, a letter
TailChars == {"7", "U+0663", "x"}

NumberInputs ==
    {h \o Dec(4123456, 7) \o t :
        h \in NumberHeads, t \in SeqsUpTo(TailChars, MaxTail)}

RangeStarts ==
    {Dec(412345600, 10), Dec(412345678, 10), Dec(412345681, 10),
     Dec(999999999, 10), P41 \o Dec(412345678, 9), Dec(99, 2), Dec(99, 4),
     <<"0", "4", "U+0661", "U+0662">>, <<>>, <<"x">>}

RangeEnds ==
    {Dec(9, 1), Dec(99, 2), Dec(80, 2), Dec(681, 3), Dec(678, 3), Dec(700, 3),
     Dec(101, 3), Dec(101, 5), Dec(1000000001, 10), Dec(412345679, 10),
     P41 \o Dec(412345680, 9), <<"U+0661", "U+0663">>,
     <<"U+0666", "U+0668", "U+0661">>, <<>>, <<"x">>,
     <<"8", "0", "-", "8", "1">>}

\* the dash, bare and between whitespace
Separators == {<<"-">>, <<" ", "-", " ">>, <<"\f", "-", "U+2003">>}

RangeInputs ==
    {a \o sep \o b : a \in RangeStarts, b \in RangeEnds, sep \in Separators}

\* numbers one digit longer than int() converts
LongOnes == [i \in 1..(INT_MAX_STR_DIGITS + 1) |-> "1"]
LongTwos == [i \in 1..(INT_MAX_STR_DIGITS + 1) |-> "2"]

LongInputs ==
    {LongOnes \o <<"-", "2">>, LongOnes \o <<"-">> \o LongTwos,
     <<"1", "-">> \o LongTwos}

FnInputs == NumberInputs \cup RangeInputs \cup LongInputs

\* the max_span values passed: the default, and a small one
SpanChoices == {MAX_SPAN, MAX_SPAN \div 25}

FnInit ==
    /\ fin \in FnInputs
    /\ fkind = "input"
    /\ fspan = 0
    /\ fout = NoResponse
    /\ pg = [d \in {} |-> OldRow]
    /\ redis = [db \in RedisDbs |-> {}]
    /\ mdb = {}
    /\ mdb0 = {}
    /\ InitWorkers

ToDnAndTarget ==
    /\ fkind = "input"
    /\ fkind' = "to_dn_and_target"
    /\ fout' = to_dn_and_target(fin)
    /\ UNCHANGED <<fin, fspan>>

\* classify the dn a classification produced
Rederive ==
    /\ fkind = "to_dn_and_target"
    /\ fout.ok
    /\ fkind' = "rederive"
    /\ fout' = to_dn_and_target(fout.dn)
    /\ UNCHANGED <<fin, fspan>>

ExpandNumbers(max_span) ==
    /\ fkind = "input"
    /\ fkind' = "expand_numbers"
    /\ fspan' = max_span
    /\ fout' = expand_numbers(fin, max_span)
    /\ UNCHANGED fin

ExpandPreview ==
    /\ fkind = "input"
    /\ fkind' = "expand_preview"
    /\ fout' = expand_preview(fin)
    /\ UNCHANGED <<fin, fspan>>

hvars == <<pg, redis, mdb, pgtxn, txn, pc, req, cur, calls, out, nops, mdb0,
           reported, lastdry>>

FnNext ==
    \/ ToDnAndTarget /\ UNCHANGED hvars
    \/ Rederive /\ UNCHANGED hvars
    \/ (\E max_span \in SpanChoices : ExpandNumbers(max_span)) /\ UNCHANGED hvars
    \/ ExpandPreview /\ UNCHANGED hvars

SpecFn == FnInit /\ [][FnNext]_vars
\* ------------------------------------------------------------------------
\* Properties of the handlers (under Spec)
\* ------------------------------------------------------------------------

\* a handler returned in this step
Returned == out'.seq # out.seq

\* the inputs of HandlerInputs that fail validation, with the failure of each
Malformed ==
    {<<InUnsupported, ErrUnsupported(InUnsupported)>>,
     <<InBadRange, ErrBadRange>>,
     <<InEndBefore, ErrEndBeforeStart>>,
     <<InTooLarge, ErrTooLarge(MAX_SPAN)>>}

\* the details of the four validation failures
ValidationFailure(detail) ==
    \/ StartsWith(detail, UnsupportedPrefix)
    \/ detail = ErrBadRange
    \/ detail = ErrEndBeforeStart
    \/ detail = ErrTooLarge(MAX_SPAN)

\* the elements of a sequence
Range(seq) == {seq[i] : i \in 1..Len(seq)}

\* C1: whatever the handler and the mode, a request whose input fails
\* validation (unsupported number format, bad range format, range end before
\* start, range too large) is answered with that failure without a single
\* store call, and the three stores and every open transaction are as before;
\* every answer that reports a validation failure was given that way; and a
\* range whose numbers are too long to convert fails without a store call too.
C1_ValidationBeforeStores ==
    [][Returned =>
        /\ \A m \in Malformed :
              out'.req.input = m[1] =>
                  /\ out'.res = Err400(m[2])
                  /\ out'.calls = <<>>
                  /\ UNCHANGED <<pg, redis, mdb, pgtxn, txn>>
        /\ out'.res.status = 400 =>
              /\ ValidationFailure(out'.res.detail)
              /\ out'.calls = <<>>
              /\ UNCHANGED <<pg, redis, mdb, pgtxn, txn>>
        /\ out'.req.input = InTooLong =>
              /\ out'.res = Err500
              /\ out'.calls = <<>>
              /\ UNCHANGED <<pg, redis, mdb, pgtxn, txn>>]_vars

\* a live fix_disp call with a range of 101 numbers was rejected
C1_Witness ==
    /\ out.req.op = "disp"
    /\ ~out.req.dry_run
    /\ out.req.input = InTooLarge
    /\ out.res = Err400(ErrTooLarge(MAX_SPAN))
    /\ mdb # {}

\* C2: a dry run never mutates a store: the step in which a dry-run request
\* is answered leaves the relational, key-value and provisioning stores
\* unchanged; dry fix_enp and fix_nprn made no store call at all, and dry
\* fix_disp issued the snapshot query and neither a DELETE nor a commit.
C2_DryRunNoMutation ==
    [][(Returned /\ out'.req.dry_run) =>
        /\ UNCHANGED <<pg, redis, mdb, pgtxn, txn>>
        /\ out'.req.op \in {"enp", "nprn"} => out'.calls = <<>>
        /\ out'.req.op = "disp" =>
              /\ ~InSeq("mdb.delete", out'.calls)
              /\ ~InSeq("mdb.commit", out'.calls)
              /\ out'.res.status = 200 =>
                    out'.calls = <<"mdb.connect", "mdb.select", "mdb.close">>]_vars

\* a dry fix_disp answered with rows it would delete, all of them still there
C2_Witness ==
    /\ out.req.op = "disp"
    /\ out.req.dry_run
    /\ out.res.status = 200
    /\ out.res.would_delete_count = 3
    /\ out.res.would_delete_rows \subseteq mdb

\* the store calls of a live fix_disp whose DELETE failed
DeleteFailedCalls ==
    <<"mdb.connect", "mdb.select", "mdb.delete", "mdb.rollback", "mdb.close">>

\* C3: live fix_disp deletes inside one transaction.  Once its DELETE has
\* returned, the next store call is the commit, and the answer is a success
\* exactly when the commit returned.  If the DELETE failed, the transaction was
\* rolled back before the error reached the caller, commit was never called,
\* and the failing step removed no provisioning row.
C3_DeleteInTransaction ==
    [][(Returned /\ out'.req.op = "disp" /\ ~out'.req.dry_run
            /\ InSeq("mdb.delete", out'.calls)) =>
        /\ out'.calls \in
              {DeleteFailedCalls,
               <<"mdb.connect", "mdb.select", "mdb.delete", "mdb.commit",
                 "mdb.close">>,
               <<"mdb.connect", "mdb.select", "mdb.delete", "mdb.commit",
                 "mdb.rollback", "mdb.close">>}
        /\ out'.res.status = 200 <=>
              out'.calls = <<"mdb.connect", "mdb.select", "mdb.delete",
                             "mdb.commit", "mdb.close">>
        /\ out'.res.status = 200 =>
              /\ mdb' = mdb \ DeleteRows(mdb, out'.res.expanded_targets)
              /\ SelectRows(mdb', out'.res.expanded_targets) = {}
        /\ out'.calls = DeleteFailedCalls =>
              /\ out'.res = Err500
              /\ ~InSeq("mdb.commit", out'.calls)
              /\ UNCHANGED <<mdb, txn>>]_vars

\* a live fix_disp whose DELETE failed: the rows of its snapshot are still there
C3_Witness ==
    /\ out.req.op = "disp"
    /\ ~out.req.dry_run
    /\ out.calls = DeleteFailedCalls
    /\ out.cur.rows # {}
    /\ out.cur.rows \subseteq mdb

\* C4: for fix_disp, when nothing changed the provisioning rows between the
\* snapshot query and the DELETE of a live run, its deleted_count is the
\* length of its deleted_rows, and it is the would_delete_count a dry run
\* returned for the same input on the same rows; a dry run's count is the
\* length of its snapshot.
C4_DryCountIsLiveCount ==
    /\ (out.req.op = "disp" /\ out.res.status = 200 /\ out.req.dry_run) =>
          out.res.would_delete_count = Cardinality(out.res.would_delete_rows)
    /\ (out.req.op = "disp" /\ out.res.status = 200 /\ ~out.req.dry_run
            /\ out.cur.quiet) =>
          /\ out.res.deleted_count = Cardinality(out.res.deleted_rows)
          /\ (lastdry.input = out.req.input /\ lastdry.view = out.cur.view) =>
                out.res.deleted_count = lastdry.count

\* a dry run, then a live run of the same range on the same rows, undisturbed
C4_Witness ==
    /\ out.req.op = "disp"
    /\ out.res.status = 200
    /\ ~out.req.dry_run
    /\ out.cur.quiet
    /\ out.req.input = InAB
    /\ lastdry.input = out.req.input
    /\ lastdry.view = out.cur.view
    /\ lastdry.count = 3

\* C8: live fix_nprn returns one count per cache key, in the order of
\* expanded_redis_keys, key i being "nprn:routing:" + expanded_dns[i]; the
\* count is 1 for a key that was in the selected database, which is then
\* gone, and 0 for a key that was not there, which is no failure; the other
\* database is untouched.
C8_PerKeyCounts ==
    [][(Returned /\ out'.req.op = "nprn" /\ ~out'.req.dry_run
            /\ out'.res.status = 200) =>
        LET keys == out'.res.expanded_redis_keys
            dns == out'.res.expanded_dns
            counts == out'.res.deleted_counts
        IN  /\ Len(counts) = Len(keys)
            /\ Len(keys) = Len(dns)
            /\ \A i \in 1..Len(keys) :
                  /\ keys[i] = RoutingPrefix \o dns[i]
                  /\ counts[i] = IF keys[i] \in redis[REDIS_DB] THEN 1 ELSE 0
            /\ redis'[REDIS_DB] = redis[REDIS_DB] \ Range(keys)
            /\ \A db \in RedisDbs \ {REDIS_DB} : redis'[db] = redis[db]]_vars

\* a live fix_nprn over two keys of which only the first existed
C8_Witness ==
    /\ out.req.op = "nprn"
    /\ ~out.req.dry_run
    /\ out.res.status = 200
    /\ out.res.deleted_counts = <<1, 0>>

\* C9: live fix_enp changes only rows whose dn is in expanded_dns and creates
\* none: updated_dns is exactly the expanded dns that had a row, a dn without
\* a row is skipped without error, the updated rows carry the profile of the
\* requested target, and every other row is unchanged.
C9_OnlyExpandedRows ==
    [][(Returned /\ out'.req.op = "enp" /\ ~out'.req.dry_run
            /\ out'.res.status = 200) =>
        LET dns == Range(out'.res.expanded_dns)
        IN  /\ out'.res.updated_dns \subseteq dns
            /\ out'.res.updated_dns = dns \cap DOMAIN pg
            /\ DOMAIN pg' = DOMAIN pg
            /\ \A d \in DOMAIN pg \ dns : pg'[d] = pg[d]
            /\ \A d \in DOMAIN pg \cap dns :
                  /\ pg'[d].system_id = out'.res.system_id
                  /\ pg'[d].nprn = out'.res.nprn
                  /\ pg'[d].product_id = 1
                  /\ pg'[d].outporting_tstamp = "NULL"]_vars

\* a live fix_enp over two dns of which only one had a row
C9_Witness ==
    /\ out.req.op = "enp"
    /\ ~out.req.dry_run
    /\ out.res.status = 200
    /\ out.res.count = 2
    /\ Cardinality(out.res.updated_dns) = 1
    /\ DOMAIN pg = out.res.updated_dns

\* C10: however live fix_disp invocations interleave, no provisioning row is
\* held by two open transactions, every held row is still in the store, and
\* the deleted_count values returned add up to the number of rows removed
\* from the store.
C10_EachRowDeletedOnce ==
    /\ \A p \in Procs : txn[p] \subseteq mdb
    /\ \A p \in Procs : \A q \in Procs \ {p} : txn[p] \cap txn[q] = {}
    /\ mdb \subseteq mdb0
    /\ reported = Cardinality(mdb0 \ mdb)

\* a live fix_disp whose deleted_count is smaller than its snapshot, because
\* another invocation removed the rows in between
C10_Witness ==
    /\ out.req.op = "disp"
    /\ ~out.req.dry_run
    /\ out.res.status = 200
    /\ out.res.deleted_rows # {}
    /\ out.res.deleted_count < Cardinality(out.res.deleted_rows)
    /\ reported > 0

\* ------------------------------------------------------------------------
\* Properties of the pure functions (under SpecFn)
\* ------------------------------------------------------------------------

\* the digits before and after the first dash of a range expression
StartDigitsOf(expr) ==
    LET s == StripSpace(expr)
    IN  SelectSeq(SubSeq(s, 1, FirstDash(s) - 1), IsDigit)

EndDigitsOf(expr) ==
    LET s == StripSpace(expr)
    IN  SelectSeq(SubSeq(s, FirstDash(s) + 1, Len(s)), IsDigit)

\* startInt and endInt of a range expression with both parts present
StartIntOf(expr) == IntOf(StartDigitsOf(expr))

EndIntOf(expr) ==
    LET a == StartDigitsOf(expr)
        b == EndDigitsOf(expr)
    IN  IF Len(b) < Len(a)
        THEN IntOf(SubSeq(a, 1, Len(a) - Len(b)) \o b)
        ELSE IntOf(b)

\* span = endInt - startInt + 1
SpanOf(expr) == BigAdd(BigSub(EndIntOf(expr), StartIntOf(expr)), <<1>>)

\* a range expression with both parts present and endInt >= startInt
WellFormedRange(expr) ==
    /\ HasDash(StripSpace(expr))
    /\ StartDigitsOf(expr) # <<>>
    /\ EndDigitsOf(expr) # <<>>
    /\ ~BigLess(EndIntOf(expr), StartIntOf(expr))

\* C5: every successful expand_numbers call on a dash-range expression
\* returns exactly the integers from startInt to endInt inclusive, ascending,
\* and every element is as wide as the digits of the range start.
C5_RangeAscendingEqualWidth ==
    (fkind = "expand_numbers" /\ HasDash(StripSpace(fin)) /\ fout.ok) =>
        LET v == fout.val
        IN  /\ Len(v) >= 1
            /\ IntOf(v[1]) = StartIntOf(fin)
            /\ IntOf(v[Len(v)]) = EndIntOf(fin)
            /\ \A i \in 1..(Len(v) - 1) :
                  IntOf(v[i + 1]) = BigAdd(IntOf(v[i]), <<1>>)
            /\ \A i \in 1..Len(v) : Len(v[i]) = Len(StartDigitsOf(fin))

\* C6: for a well-formed range with endInt >= startInt, expand_numbers fails
\* with "Range too large" exactly when the span exceeds max_span and succeeds
\* otherwise; with the ceiling of 100 every successful expansion, and every
\* preview built from one, holds between 1 and 100 elements.
C6_SpanCeiling ==
    /\ (fkind = "expand_numbers" /\ WellFormedRange(fin)) =>
          /\ fout.ok <=> ~BigLess(FromNat(fspan), SpanOf(fin))
          /\ ~fout.ok =>
                /\ fout.exc = "HTTPException"
                /\ fout.err = ErrTooLarge(fspan)
          /\ fout.ok => FromNat(Len(fout.val)) = SpanOf(fin)
    /\ (fkind = "expand_numbers" /\ fspan = 100 /\ fout.ok) =>
          Len(fout.val) \in 1..100
    /\ (fkind = "expand_preview" /\ fout.ok) =>
          /\ fout.count \in 1..100
          /\ Len(fout.expanded_targets) = fout.count
          /\ Len(fout.expanded_dns) = fout.count
          /\ Len(fout.expanded_redis_keys) = fout.count
    /\ (fkind = "expand_preview" /\ WellFormedRange(fin)
            /\ BigLess(FromNat(100), SpanOf(fin))) =>
          /\ ~fout.ok
          /\ fout.exc = "HTTPException"
          /\ fout.err = ErrTooLarge(100)

\* a string of decimal digits
AllDigits(s) == \A i \in 1..Len(s) : IsDigit(s[i])

\* C7: to_dn_and_target succeeds exactly when the digits of its input (the
\* characters \d matches) are 10 long starting with 0, or 11 long starting
\* with 41, and fails with "Unsupported number format: <input>" otherwise; on success dn is 11 digits starting
\* with 41, target is 10 digits starting with 0, dn = "41" + target[1:] and
\* target = "0" + dn[2:]; classifying the dn of a 10-digit input gives back
\* that input as target.
C7_ClassifyRoundTrip ==
    /\ fkind = "to_dn_and_target" =>
          LET d == SelectSeq(fin, IsDigit)
              accepted ==
                  \/ Len(d) = 10 /\ d[1] = "0"
                  \/ Len(d) = 11 /\ d[1] = "4" /\ d[2] = "1"
          IN  /\ fout.ok <=> accepted
              /\ ~fout.ok =>
                    /\ fout.exc = "HTTPException"
                    /\ fout.err = ErrUnsupported(fin)
              /\ fout.ok =>
                    /\ Len(fout.dn) = 11 /\ AllDigits(fout.dn)
                    /\ fout.dn[1] = "4" /\ fout.dn[2] = "1"
                    /\ Len(fout.target) = 10 /\ AllDigits(fout.target)
                    /\ fout.target[1] = "0"
                    /\ fout.dn = <<"4", "1">> \o SubSeq(fout.target, 2, 10)
                    /\ fout.target = <<"0">> \o SubSeq(fout.dn, 3, 11)
                    /\ d \in {fout.dn, fout.target}
    /\ fkind = "rederive" =>
          LET d == SelectSeq(fin, IsDigit)
          IN  /\ fout.ok
              /\ Len(d) = 10 => fout.target = d
              /\ Len(d) = 11 => fout.dn = d

\* the dn of a 10-digit number was classified and gave the number back
C7_Witness ==
    /\ fkind = "rederive"
    /\ Len(SelectSeq(fin, IsDigit)) = 10
    /\ fout.ok
    /\ fout.target = SelectSeq(fin, IsDigit)
====
